---- MODULE Spec2Model ----
(***************************************************************************)
(* Minesweeper engine (src/src/hud_controller/minesweeper.py), the session *)
(* context that owns it (context.py) and the setup, reveal, flag and       *)
(* evaluate tools of the MCP server (server.py).                           *)
(*                                                                         *)
(* A cell is a pair <<row, col>>.  The two list-of-lists boards of the     *)
(* game object are functions over the cells that _create_board creates.    *)
(* Every method of MinesweeperGame is an operator from the game object (and*)
(* the call's arguments) to the game object after the call and the value   *)
(* returned; every tool call is one action that applies it.  The value     *)
(* returned goes to the caller and is not kept in the session.             *)
(***************************************************************************)
EXTENDS Integers, FiniteSets, Sequences, TLC

\* game, games_played, games_won: the fields of the Context object, which
\*   lives in the context process (context.py, line 42)
\* hung: a call of the context process has entered a loop that does not end
\* server_random: the seeding of the `random` module of the server process,
\*   {} while it has its start-up seeding, {s} after random.seed(s)
VARIABLES game, games_played, games_won, hung, server_random

vars == <<game, games_played, games_won, hung, server_random>>

----------------------------------------------------------------------------
(* Bounds of the explored inputs. *)

\* largest rows argument of setup, and largest row argument of reveal/flag
MaxRows == 2
\* largest cols argument of setup, and largest col argument of reveal/flag
MaxCols == 4
\* a single game (GameSpec) is explored on boards of at most this many cells
MaxCells == 6
\* a session (Spec) sets up boards of at most this many cells
MaxSessionCells == 3
\* largest num_mines argument of setup
MaxMines == 2
\* successful setups explored per session (caps games_played)
MaxGames == 2

RowArgs == -1 .. MaxRows
ColArgs == -1 .. MaxCols
MineArgs == -1 .. MaxMines

\* the default of the random_seed argument of setup
DefaultSeed == 42
SeedArgs == {DefaultSeed}

----------------------------------------------------------------------------
(* Board helpers. *)

Cells(rows, cols) == (0 .. rows - 1) \X (0 .. cols - 1)

InBounds(g, row, col) == 0 <= row /\ row < g.rows /\ 0 <= col /\ col < g.cols

\* the (dr, dc) pairs of the two nested loops over [-1, 0, 1], in loop order,
\* without (0, 0)
Deltas ==
  << <<-1, -1>>, <<-1, 0>>, <<-1, 1>>, <<0, -1>>, <<0, 1>>, <<1, -1>>, <<1, 0>>, <<1, 1>> >>

\* str(n) for a mine count
Str(n) ==
  CASE n = 0 -> "0" [] n = 1 -> "1" [] n = 2 -> "2" [] n = 3 -> "3" [] n = 4 -> "4"
    [] n = 5 -> "5" [] n = 6 -> "6" [] n = 7 -> "7" [] n = 8 -> "8"

\* MinesweeperGame.__init__
NewGame ==
  [grid |-> [c \in {} |-> 0], display_board |-> [c \in {} |-> "X"],
   rows |-> 0, cols |-> 0, num_mines |-> 0,
   game_over |-> FALSE, won |-> FALSE, mines_flagged |-> 0]

\* _create_board: a grid of 0 and a display board of 'X' over range(rows) x range(cols)
create_board(g) ==
  [g EXCEPT !.grid = [c \in Cells(g.rows, g.cols) |-> 0],
            !.display_board = [c \in Cells(g.rows, g.cols) |-> "X"]]

\* _assign_bombs when its loop places the mines on the cells `mines`
assign_bombs(g, mines) ==
  [g EXCEPT !.grid = [c \in DOMAIN g.grid |-> IF c \in mines THEN -1 ELSE g.grid[c]]]

\* fault: mine indicators that count the four orthogonal neighbours only
calculate_mine_indicators_orthogonal(g) ==
  [g EXCEPT !.grid =
     [c \in DOMAIN g.grid |->
        IF g.grid[c] # -1
        THEN Cardinality({i \in {2, 4, 5, 7} :
               LET nr == c[1] + Deltas[i][1]
                   nc == c[2] + Deltas[i][2]
               IN InBounds(g, nr, nc) /\ g.grid[<<nr, nc>>] = -1})
        ELSE -1]]

\* _calculate_mine_indicators: the loop only reads whether a cell is -1 and only
\* writes counts >= 0 to cells that are not -1, so its in-place passes equal this
calculate_mine_indicators(g) ==
  [g EXCEPT !.grid =
     [c \in DOMAIN g.grid |->
        IF g.grid[c] # -1
        THEN Cardinality({i \in 1 .. 8 :
               LET nr == c[1] + Deltas[i][1]
                   nc == c[2] + Deltas[i][2]
               IN InBounds(g, nr, nc) /\ g.grid[<<nr, nc>>] = -1})
        ELSE -1]]

----------------------------------------------------------------------------
(* setup_game. *)

\* fault: setup_game without the reset of mines_flagged (line 33)
reset_fields_keeps_flag_count(g, rows, cols, num_mines) ==
  [g EXCEPT !.rows = rows, !.cols = cols, !.num_mines = num_mines,
            !.game_over = FALSE, !.won = FALSE,
            !.grid = [c \in {} |-> 0], !.display_board = [c \in {} |-> "X"]]

\* the fields setup_game assigns (lines 28-37) before it builds the boards
reset_fields(g, rows, cols, num_mines) ==
  [g EXCEPT !.rows = rows, !.cols = cols, !.num_mines = num_mines,
            !.game_over = FALSE, !.won = FALSE, !.mines_flagged = 0,
            !.grid = [c \in {} |-> 0], !.display_board = [c \in {} |-> "X"]]

\* how a call of setup_game ends:
\*   "rejected"  the guard of line 25 raises ValueError, nothing assigned
\*   "ready"     the call returns
\*   "randint"   random.randint(0, rows - 1) or (0, cols - 1) raises ValueError
\*               for an empty range inside _assign_bombs, after the fields and
\*               the boards have been replaced
\*   "loop"      mines_placed counts up from 0 and never equals a negative
\*               num_mines: the while loop of _assign_bombs does not end
setup_outcome(rows, cols, num_mines) ==
  IF num_mines >= rows * cols THEN "rejected"
  ELSE IF num_mines = 0 THEN "ready"
  ELSE IF rows - 1 < 0 \/ cols - 1 < 0 THEN "randint"
  ELSE IF num_mines < 0 THEN "loop"
  ELSE "ready"

\* the mine layouts _assign_bombs can end with
Layouts(rows, cols, num_mines) ==
  {m \in SUBSET Cells(rows, cols) : Cardinality(m) = num_mines}

setup_game(g, rows, cols, num_mines, mines) ==
  LET outcome == setup_outcome(rows, cols, num_mines)
      g1 == create_board(reset_fields(g, rows, cols, num_mines))
  IN CASE outcome = "rejected" ->
            [game |-> g, result |-> [status |-> "ValueError", won |-> FALSE, board |-> FALSE]]
       [] outcome = "randint" ->
            [game |-> g1, result |-> [status |-> "ValueError", won |-> FALSE, board |-> FALSE]]
       [] outcome = "loop" ->
            \* every cell ends up a mine and the loop spins on
            [game |-> assign_bombs(g1, DOMAIN g1.grid),
             result |-> [status |-> "none", won |-> FALSE, board |-> FALSE]]
       [] outcome = "ready" ->
            [game |-> calculate_mine_indicators(assign_bombs(g1, mines)),
             result |-> [status |-> "ready", won |-> FALSE, board |-> TRUE]]

----------------------------------------------------------------------------
(* reveal, flag and the cascade. *)

RECURSIVE uncover_squares(_, _, _, _)
RECURSIVE uncover_neighbours(_, _, _, _, _)

RECURSIVE uncover_neighbours_one_level(_, _, _, _, _)
\* fault: a cascade that shows the neighbours of the start cell and stops
uncover_neighbours_one_level(g, d, row, col, i) ==
  IF i > Len(Deltas) THEN d
  ELSE LET nr == row + Deltas[i][1]
           nc == col + Deltas[i][2]
           d1 == IF InBounds(g, nr, nc) /\ g.grid[<<nr, nc>>] >= 0 /\ d[<<nr, nc>>] = "X"
                 THEN [d EXCEPT ![<<nr, nc>>] =
                         IF g.grid[<<nr, nc>>] = 0 THEN "-" ELSE Str(g.grid[<<nr, nc>>])]
                 ELSE d
       IN uncover_neighbours_one_level(g, d1, row, col, i + 1)

\* fault: a cascade that shows every cell it uncovers as empty
uncover_squares_blank_numbers(g, d, row, col) ==
  IF ~InBounds(g, row, col) \/ d[<<row, col>>] # "X" THEN d
  ELSE IF g.grid[<<row, col>>] > 0 THEN [d EXCEPT ![<<row, col>>] = "-"]
  ELSE IF g.grid[<<row, col>>] = 0
       THEN uncover_neighbours(g, [d EXCEPT ![<<row, col>>] = "-"], row, col, 1)
  ELSE d

\* fault: a cascade that treats a flagged cell as a hidden one
uncover_squares_through_flags(g, d, row, col) ==
  IF ~InBounds(g, row, col) \/ d[<<row, col>>] \notin {"X", "F"} THEN d
  ELSE IF g.grid[<<row, col>>] > 0
       THEN [d EXCEPT ![<<row, col>>] = Str(g.grid[<<row, col>>])]
  ELSE IF g.grid[<<row, col>>] = 0
       THEN uncover_neighbours(g, [d EXCEPT ![<<row, col>>] = "-"], row, col, 1)
  ELSE d

\* _uncover_squares(row, col) on display board d; the value is the display
\* board when the call returns
uncover_squares(g, d, row, col) ==
  IF ~InBounds(g, row, col) \/ d[<<row, col>>] # "X" THEN d
  ELSE IF d[<<row, col>>] = "F" THEN d
  ELSE IF g.grid[<<row, col>>] > 0
       THEN [d EXCEPT ![<<row, col>>] = Str(g.grid[<<row, col>>])]
  ELSE IF g.grid[<<row, col>>] = 0
       THEN uncover_neighbours(g, [d EXCEPT ![<<row, col>>] = "-"], row, col, 1)
  ELSE d

\* the loop of lines 197-204 from its i-th (dr, dc) on
uncover_neighbours(g, d, row, col, i) ==
  IF i > Len(Deltas) THEN d
  ELSE LET nr == row + Deltas[i][1]
           nc == col + Deltas[i][2]
           d1 == IF InBounds(g, nr, nc) /\ g.grid[<<nr, nc>>] >= 0
                 THEN uncover_squares(g, d, nr, nc)
                 ELSE d
       IN uncover_neighbours(g, d1, row, col, i + 1)

\* fault: a win test that leaves out the 'F' comparison of line 212
check_win_counts_flags(g) ==
  LET uncovered == Cardinality({c \in DOMAIN g.display_board :
                                  g.display_board[c] \notin {"X", "*"}})
  IN (g.rows * g.cols) - g.num_mines = uncovered

\* _check_win
check_win(g) ==
  LET uncovered == Cardinality({c \in DOMAIN g.display_board :
                                  g.display_board[c] \notin {"X", "F", "*"}})
  IN (g.rows * g.cols) - g.num_mines = uncovered

Invalid == [status |-> "invalid", won |-> FALSE, board |-> FALSE]
GameOver == [status |-> "game_over", won |-> FALSE, board |-> FALSE]

\* fault: a mine hit that does not end the game
hit_mine_keeps_playing(g, row, col) ==
  [game |-> [g EXCEPT !.display_board[<<row, col>>] = "*"],
   result |-> [status |-> "mine_hit", won |-> FALSE, board |-> TRUE]]

\* fault: a mine hit that uncovers every mine of the board
hit_mine_shows_all_mines(g, row, col) ==
  [game |-> [g EXCEPT !.display_board = [c \in DOMAIN g.display_board |->
                                          IF g.grid[c] = -1 THEN "*" ELSE g.display_board[c]],
                      !.game_over = TRUE],
   result |-> [status |-> "mine_hit", won |-> FALSE, board |-> TRUE]]

\* reveal, lines 111-121: the target is a hidden mine
hit_mine(g, row, col) ==
  [game |-> [g EXCEPT !.display_board[<<row, col>>] = "*", !.game_over = TRUE],
   result |-> [status |-> "mine_hit", won |-> FALSE, board |-> TRUE]]

\* reveal, lines 123-144: the target is hidden and no mine
reveal_safe(g, row, col) ==
  LET g1 == [g EXCEPT !.display_board = uncover_squares(g, g.display_board, row, col)]
  IN IF check_win(g1)
     THEN [game |-> [g1 EXCEPT !.game_over = TRUE, !.won = TRUE],
           result |-> [status |-> "won", won |-> TRUE, board |-> TRUE]]
     ELSE [game |-> g1,
           result |-> [status |-> "revealed", won |-> FALSE, board |-> TRUE]]

\* fault: reveal without the flagged-cell test of lines 105-106
reveal_flagged_too(g, row, col) ==
  IF ~InBounds(g, row, col) THEN [game |-> g, result |-> Invalid]
  ELSE IF g.display_board[<<row, col>>] \notin {"X", "F"} THEN [game |-> g, result |-> Invalid]
  ELSE IF g.grid[<<row, col>>] = -1 THEN hit_mine(g, row, col)
  ELSE reveal_safe(g, row, col)

\* fault: reveal without the already-revealed test of lines 108-109
reveal_revealed_again(g, row, col) ==
  IF ~InBounds(g, row, col) THEN [game |-> g, result |-> Invalid]
  ELSE IF g.display_board[<<row, col>>] = "F" THEN [game |-> g, result |-> Invalid]
  ELSE IF g.grid[<<row, col>>] = -1 THEN hit_mine(g, row, col)
  ELSE IF g.display_board[<<row, col>>] # "X"
       THEN [game |-> g, result |-> [status |-> "revealed", won |-> FALSE, board |-> TRUE]]
  ELSE reveal_safe(g, row, col)

\* reveal, lines 102-144: the game is not over
reveal_in_progress(g, row, col) ==
  IF ~InBounds(g, row, col) THEN [game |-> g, result |-> Invalid]
  ELSE IF g.display_board[<<row, col>>] = "F" THEN [game |-> g, result |-> Invalid]
  ELSE IF g.display_board[<<row, col>>] # "X" THEN [game |-> g, result |-> Invalid]
  ELSE IF g.grid[<<row, col>>] = -1 THEN hit_mine(g, row, col)
  ELSE reveal_safe(g, row, col)

\* fault: reveal without the game_over guard of lines 99-100
reveal_after_game_over(g, row, col) == reveal_in_progress(g, row, col)

\* MinesweeperGame.reveal: the game after the call and the dict returned.
\* `won` is result.get("won", False), `board` whether the dict has a "board"
reveal(g, row, col) ==
  IF g.game_over THEN [game |-> g, result |-> GameOver]
  ELSE reveal_in_progress(g, row, col)

\* the dict flag returns for an accepted call (lines 168-174)
flagged_result(g) ==
  [status |-> "flagged", won |-> FALSE, board |-> TRUE, mines_flagged |-> g.mines_flagged]

\* fault: flag without the revealed-cell test of lines 154-155
flag_revealed_too(g, row, col) ==
  IF ~InBounds(g, row, col) THEN [game |-> g, result |-> Invalid]
  ELSE LET g1 == [g EXCEPT !.display_board[<<row, col>>] = "F",
                           !.mines_flagged = g.mines_flagged + 1]
           g2 == [g EXCEPT !.display_board[<<row, col>>] = "X",
                           !.mines_flagged = g.mines_flagged - 1]
       IN IF g.display_board[<<row, col>>] # "F"
          THEN [game |-> g1, result |-> flagged_result(g1)]
          ELSE [game |-> g2, result |-> flagged_result(g2)]

\* fault: an unflag that keeps the count of line 165
flag_unflag_keeps_count(g, row, col) ==
  IF ~InBounds(g, row, col) THEN [game |-> g, result |-> Invalid]
  ELSE IF g.display_board[<<row, col>>] \notin {"X", "F"} THEN [game |-> g, result |-> Invalid]
  ELSE LET g1 == [g EXCEPT !.display_board[<<row, col>>] = "F",
                           !.mines_flagged = g.mines_flagged + 1]
           g2 == [g EXCEPT !.display_board[<<row, col>>] = "X"]
       IN IF g.display_board[<<row, col>>] = "X"
          THEN [game |-> g1, result |-> flagged_result(g1)]
          ELSE [game |-> g2, result |-> flagged_result(g2)]

\* flag, lines 151-174: the game is not over
flag_in_progress(g, row, col) ==
  IF ~InBounds(g, row, col) THEN [game |-> g, result |-> Invalid]
  ELSE IF g.display_board[<<row, col>>] \notin {"X", "F"} THEN [game |-> g, result |-> Invalid]
  ELSE LET g1 == [g EXCEPT !.display_board[<<row, col>>] = "F",
                           !.mines_flagged = g.mines_flagged + 1]
           g2 == [g EXCEPT !.display_board[<<row, col>>] = "X",
                           !.mines_flagged = g.mines_flagged - 1]
       IN IF g.display_board[<<row, col>>] = "X"
          THEN [game |-> g1, result |-> flagged_result(g1)]
          ELSE [game |-> g2, result |-> flagged_result(g2)]

\* MinesweeperGame.flag
flag(g, row, col) ==
  IF g.game_over THEN [game |-> g, result |-> GameOver]
  ELSE flag_in_progress(g, row, col)

----------------------------------------------------------------------------
(* Evaluation.  A float is modelled by the rational it stands for, a record *)
(* [num, den] with den > 0; 1.0 is 1/1 and 0.0 is 0/1.                      *)

Rat(n, d) == IF d < 0 THEN [num |-> -n, den |-> -d] ELSE [num |-> n, den |-> d]
RatEq(a, b) == a.num * b.den = b.num * a.den
RatLeq(a, b) == a.num * b.den <= b.num * a.den
RatLt(a, b) == a.num * b.den < b.num * a.den
RatSub(a, b) == Rat(a.num * b.den - b.num * a.den, a.den * b.den)
RatMul(a, b) == Rat(a.num * b.num, a.den * b.den)
\* a / b for b # 0
RatDiv(a, b) == Rat(a.num * b.den, a.den * b.num)
Zero == Rat(0, 1)
Half == Rat(1, 2)
One == Rat(1, 1)

\* max(a, b)
Max(a, b) == IF a >= b THEN a ELSE b

\* MinesweeperGame.get_game_state: the counts it derives from the display board
get_game_state(g) ==
  [game_over |-> g.game_over, won |-> g.won, rows |-> g.rows, cols |-> g.cols,
   num_mines |-> g.num_mines,
   cells_revealed |-> Cardinality({c \in DOMAIN g.display_board :
                                     g.display_board[c] \notin {"X", "F"}}),
   cells_flagged |-> Cardinality({c \in DOMAIN g.display_board :
                                    g.display_board[c] = "F"}),
   cells_total |-> g.rows * g.cols,
   progress |-> Rat(Cardinality({c \in DOMAIN g.display_board :
                                   g.display_board[c] \notin {"X", "F"}}),
                    Max(1, g.rows * g.cols - g.num_mines)),
   mines_remaining |-> g.num_mines - Cardinality({c \in DOMAIN g.display_board :
                                                    g.display_board[c] = "F"})]

\* MinesweeperGame.get_board, without the rendered text
get_board(g) ==
  [rows |-> g.rows, cols |-> g.cols, mines_remaining |-> g.num_mines - g.mines_flagged,
   game_over |-> g.game_over, won |-> g.won]

\* Context.get_game_state: the game's state and the session statistics
Context_get_game_state(g, played, won) ==
  [state |-> get_game_state(g), games_played |-> played, games_won |-> won,
   win_rate |-> Rat(won, Max(1, played))]

\* reward_demo.calculate_reward (the same arithmetic as test_reward.py)
calculate_reward(cells_revealed, total_cells, num_mines, won) ==
  LET expected_random_cells == Rat(total_cells - num_mines, num_mines + 1)
      max_possible == Rat(total_cells - num_mines, 1)
      cells_above_expected == RatSub(Rat(cells_revealed, 1), expected_random_cells)
      max_above_expected == RatSub(max_possible, expected_random_cells)
  IN IF won THEN One
     ELSE IF RatLeq(Rat(cells_revealed, 1), expected_random_cells) THEN Zero
     ELSE RatMul(Half, RatDiv(cells_above_expected, max_above_expected))

\* fault: the reward of a game that is not won taken from the partial score
evaluate_reward_partial(state) ==
  calculate_reward(state.cells_revealed, state.cells_total, state.num_mines, state.won)

\* fault: the reward decided by game_over instead of won
evaluate_reward_game_over(state) == IF state.game_over THEN One ELSE Zero

\* the reward of server.evaluate, lines 140-143
evaluate_reward(state) == IF state.won THEN One ELSE Zero

\* server.evaluate: line 135 divides by num_mines + 1
evaluate(g) ==
  LET state == get_game_state(g)
  IN IF state.num_mines + 1 = 0
     THEN [status |-> "ZeroDivisionError", won |-> FALSE, board |-> FALSE, reward |-> Zero]
     ELSE [status |-> "evaluated", won |-> FALSE, board |-> FALSE,
           reward |-> evaluate_reward(state)]

\* server.reveal, lines 54-66: whether the reply is an error message and
\* whether it shows the board
reveal_reply(g, row, col) ==
  LET result == reveal(g, row, col).result
  IN IF result.status \in {"mine_hit", "won", "revealed", "already_revealed"}
     THEN [error |-> FALSE, board |-> result.board]
     ELSE [error |-> TRUE, board |-> FALSE]

\* server.flag, lines 83-88: whether the reply is an error message and, if
\* not, the number it prints after "Mines remaining:"
flag_reply(g, row, col) ==
  LET result == flag(g, row, col).result
  IN IF result.status = "flagged"
     THEN [error |-> FALSE, mines_remaining |-> result.mines_flagged]
     ELSE [error |-> TRUE]

----------------------------------------------------------------------------
(* The session: Context of context.py behind the tools of server.py. *)

Init ==
  /\ game = NewGame
  /\ games_played = 0
  /\ games_won = 0
  /\ hung = FALSE
  /\ server_random = {}

\* fault: a new_game that does not count the game
SetupCall_uncounted(rows, cols, num_mines, random_seed, mines) ==
  /\ ~hung
  /\ setup_outcome(rows, cols, num_mines) = "ready" =>
       games_played < MaxGames /\ mines \in Layouts(rows, cols, num_mines)
  /\ game' = setup_game(game, rows, cols, num_mines, mines).game
  /\ hung' = (setup_outcome(rows, cols, num_mines) = "loop")
  /\ server_random' = {random_seed}
  /\ UNCHANGED <<games_played, games_won>>

\* server.setup -> Context.new_game -> setup_game, for one call and the mine
\* layout its random draws produce.  random.seed(random_seed) of line 33
\* seeds the generator of the server process; _assign_bombs draws from the
\* generator of the context process, which no code seeds, so the layout is
\* any of Layouts whatever the seed.  A call whose mine loop does not end
\* never returns: the context process serves nothing afterwards.
SetupCall(rows, cols, num_mines, random_seed, mines) ==
  LET outcome == setup_outcome(rows, cols, num_mines)
      out == setup_game(game, rows, cols, num_mines, mines)
  IN /\ ~hung
     /\ outcome = "ready" => games_played < MaxGames /\ mines \in Layouts(rows, cols, num_mines)
     /\ server_random' = {random_seed}
     /\ game' = out.game
     /\ games_played' = IF outcome = "ready" THEN games_played + 1 ELSE games_played
     /\ hung' = (outcome = "loop")
     /\ UNCHANGED games_won

Setup ==
  \E rows \in RowArgs, cols \in ColArgs, num_mines \in MineArgs, random_seed \in SeedArgs :
    /\ rows * cols <= MaxSessionCells
    /\ \E mines \in (IF setup_outcome(rows, cols, num_mines) = "ready"
                     THEN Layouts(rows, cols, num_mines) ELSE {{}}) :
         SetupCall(rows, cols, num_mines, random_seed, mines)

\* fault: a reveal_cell that counts a win whenever the game stands won
RevealCall_counts_won_game(row, col) ==
  /\ ~hung
  /\ game' = reveal(game, row, col).game
  /\ games_won' = IF game'.won THEN games_won + 1 ELSE games_won
  /\ UNCHANGED <<games_played, hung, server_random>>

\* server.reveal -> Context.reveal_cell -> reveal
RevealCall(row, col) ==
  LET out == reveal(game, row, col)
  IN /\ ~hung
     /\ game' = out.game
     /\ games_won' = IF out.result.won THEN games_won + 1 ELSE games_won
     /\ UNCHANGED <<games_played, hung, server_random>>

Reveal == \E row \in RowArgs, col \in ColArgs : RevealCall(row, col)

\* server.flag -> Context.flag_cell -> flag
FlagCall(row, col) ==
  LET out == flag(game, row, col)
  IN /\ ~hung
     /\ game' = out.game
     /\ UNCHANGED <<games_played, games_won, hung, server_random>>

Flag == \E row \in RowArgs, col \in ColArgs : FlagCall(row, col)

\* server.evaluate -> Context.get_game_state: the tool reads the session and
\* answers evaluate(game); it assigns nothing
Evaluate ==
  /\ ~hung
  /\ evaluate(game).status \in {"evaluated", "ZeroDivisionError"}
  /\ UNCHANGED <<game, games_played, games_won, hung, server_random>>

Next == Setup \/ Reveal \/ Flag \/ Evaluate

\* a session from the construction of the context on
Spec == Init /\ [][Next]_vars

\* One game: the session right after its first successful setup, for every
\* accepted configuration and every mine layout, then reveal, flag and evaluate
\* calls only.
GameInit ==
  /\ \E rows \in RowArgs, cols \in ColArgs, num_mines \in MineArgs :
       /\ rows * cols <= MaxCells
       /\ setup_outcome(rows, cols, num_mines) = "ready"
       /\ \E mines \in Layouts(rows, cols, num_mines) :
            game = setup_game(NewGame, rows, cols, num_mines, mines).game
  /\ games_played = 1
  /\ games_won = 0
  /\ hung = FALSE
  /\ server_random \in {{random_seed} : random_seed \in SeedArgs}

GameNext == Reveal \/ Flag \/ Evaluate

GameSpec == GameInit /\ [][GameNext]_vars

----------------------------------------------------------------------------
(* Properties. *)

CellsOf(g) == DOMAIN g.display_board
Hidden(g, c) == g.display_board[c] = "X"
Flagged(g, c) == g.display_board[c] = "F"
Exploded(g, c) == g.display_board[c] = "*"
Revealed(g, c) == g.display_board[c] \notin {"X", "F", "*"}
IsMine(g, c) == g.grid[c] = -1
SafeTotal(g) == g.rows * g.cols - g.num_mines
RevealedSafe(g) == Cardinality({c \in CellsOf(g) : ~IsMine(g, c) /\ Revealed(g, c)})
Changed(g, h) == {c \in CellsOf(g) : h.display_board[c] # g.display_board[c]}

\* the mines of a grid
MinesOf(g) == {c \in DOMAIN g.grid : g.grid[c] = -1}

\* C1: once the game is over, every reveal and flag call, for coordinates in
\* or out of bounds and any cell state, returns game_over and leaves the game
\* (grid, display board, game_over, won, mines_flagged) as it is; a step that
\* changes the game or the win counter of a finished game is a setup call.
C1_TerminalAbsorbing ==
  [][game.game_over =>
       /\ \A row \in RowArgs, col \in ColArgs :
            /\ reveal(game, row, col) = [game |-> game, result |-> GameOver]
            /\ flag(game, row, col) = [game |-> game, result |-> GameOver]
       /\ \/ UNCHANGED <<game, games_won>>
          \/ \E random_seed \in server_random' :
               SetupCall(game'.rows, game'.cols, game'.num_mines, random_seed,
                         MinesOf(game'))]_vars

\* a lost game that still has a hidden safe cell and a hidden mine to call on
C1_Witness ==
  /\ game.game_over /\ ~game.won
  /\ \E c \in CellsOf(game) : Hidden(game, c) /\ ~IsMine(game, c)
  /\ \E c \in CellsOf(game) : Flagged(game, c)

\* C2: in a game, won holds exactly when the number of revealed non-mine
\* cells is rows*cols - num_mines, and a reveal call that brings that number
\* to rows*cols - num_mines returns won with game_over and won set.
C2_WinIffAllSafeRevealed ==
  /\ game.won <=> RevealedSafe(game) = SafeTotal(game)
  /\ \A row \in RowArgs, col \in ColArgs :
       LET out == reveal(game, row, col)
       IN (~game.game_over /\ RevealedSafe(out.game) = SafeTotal(out.game))
            => /\ out.result.status = "won"
               /\ out.game.game_over
               /\ out.game.won

\* a game with mines won while a mine is flagged
C2_Witness ==
  /\ game.won /\ game.num_mines > 0
  /\ \E c \in CellsOf(game) : Flagged(game, c)

\* C3: revealing a hidden mine of a game in progress marks that cell '*',
\* sets game_over, leaves won false, returns mine_hit and changes no other
\* cell, nor the grid, nor mines_flagged.
C3_MineHit ==
  \A c \in CellsOf(game) :
    (~game.game_over /\ Hidden(game, c) /\ IsMine(game, c)) =>
      LET out == reveal(game, c[1], c[2])
      IN /\ out.result.status = "mine_hit"
         /\ out.game.display_board[c] = "*"
         /\ Changed(game, out.game) = {c}
         /\ out.game.game_over /\ ~out.game.won
         /\ out.game.grid = game.grid
         /\ out.game.mines_flagged = game.mines_flagged
         /\ DOMAIN out.game.display_board = DOMAIN game.display_board

\* a lost game with an exploded mine, another mine still hidden
C3_Witness ==
  /\ game.game_over /\ ~game.won
  /\ \E c \in CellsOf(game) : Exploded(game, c)
  /\ \E c \in CellsOf(game) : IsMine(game, c) /\ Hidden(game, c)

Adjacent(a, b) == a # b /\ (a[1] - b[1]) \in -1 .. 1 /\ (a[2] - b[2]) \in -1 .. 1

RECURSIVE Component(_, _)
\* the cells of Z connected to S by 8-neighbour steps inside Z
Component(S, Z) ==
  LET T == S \cup {z \in Z : \E x \in S : Adjacent(x, z)}
  IN IF T = S THEN S ELSE Component(T, Z)

\* a set of cells and the non-mine cells next to it
WithBorder(g, S) ==
  S \cup {n \in CellsOf(g) : ~IsMine(g, n) /\ \E z \in S : Adjacent(z, n)}

Glyph(g, c) == IF g.grid[c] = 0 THEN "-" ELSE Str(g.grid[c])

\* C4 as stated: revealing a hidden zero-count cell reveals the whole connected
\* component of zero-count cells and every non-mine cell next to it, flagged
\* cells excepted, and nothing else; a hidden numbered cell reveals only itself.
\* (Stated for boards that have a mine.)
C4_WholeZeroComponent ==
  \A c \in CellsOf(game) :
    (game.num_mines > 0 /\ ~game.game_over /\ Hidden(game, c) /\ ~IsMine(game, c)) =>
      LET out == reveal(game, c[1], c[2])
          region == WithBorder(game, Component({c}, {z \in CellsOf(game) : game.grid[z] = 0}))
      IN IF game.grid[c] = 0
         THEN /\ \A x \in region : Flagged(game, x) \/ Revealed(out.game, x)
              /\ Changed(game, out.game) \subseteq region
              /\ \A x \in CellsOf(game) : Flagged(game, x) => Flagged(out.game, x)
         ELSE Changed(game, out.game) = {c} /\ Revealed(out.game, c)

\* C4 amended: revealing a hidden zero-count cell reveals exactly the cells
\* hidden at the call that are reached through hidden zero-count cells: the
\* cell's component among the hidden zero-count cells and the hidden non-mine
\* cells next to it, each shown with its count; flagged and already revealed
\* cells stop the cascade and every other cell keeps its display.  A hidden
\* numbered cell reveals only itself.
C4_HiddenZeroComponent ==
  \A c \in CellsOf(game) :
    (~game.game_over /\ Hidden(game, c) /\ ~IsMine(game, c)) =>
      LET out == reveal(game, c[1], c[2])
          zeros == Component({c}, {z \in CellsOf(game) : game.grid[z] = 0 /\ Hidden(game, z)})
          region == {x \in WithBorder(game, zeros) : Hidden(game, x)}
      IN IF game.grid[c] = 0
         THEN out.game.display_board =
                [x \in CellsOf(game) |->
                   IF x \in region THEN Glyph(game, x) ELSE game.display_board[x]]
         ELSE out.game.display_board = [game.display_board EXCEPT ![c] = Str(game.grid[c])]

\* a cascade has run past a flagged zero-count cell: a revealed zero-count
\* cell has a flagged zero-count neighbour and a revealed numbered neighbour
C4_Witness ==
  \E z \in CellsOf(game) :
    /\ game.display_board[z] = "-"
    /\ \E f \in CellsOf(game) : Adjacent(z, f) /\ Flagged(game, f) /\ game.grid[f] = 0
    /\ \E n \in CellsOf(game) : Adjacent(z, n) /\ Revealed(game, n) /\ game.grid[n] > 0

\* C5: in a game every step changes a cell's display only from hidden to
\* revealed, hidden to flagged, flagged to hidden or hidden to exploded; a
\* flagged cell leaves the flagged state only by a flag call on that cell.
C5_VisibilityTransitions ==
  [][\A c \in CellsOf(game) :
       \/ game'.display_board[c] = game.display_board[c]
       \/ Hidden(game, c) /\ Revealed(game', c) /\ game'.display_board[c] = Glyph(game, c)
       \/ Hidden(game, c) /\ Flagged(game', c)
       \/ Flagged(game, c) /\ Hidden(game', c) /\ FlagCall(c[1], c[2])
       \/ Hidden(game, c) /\ Exploded(game', c)]_vars

\* a lost game showing a revealed cell, a flagged mine and the exploded mine
C5_Witness ==
  /\ \E c \in CellsOf(game) : Revealed(game, c)
  /\ \E c \in CellsOf(game) : Flagged(game, c) /\ IsMine(game, c)
  /\ \E c \in CellsOf(game) : Exploded(game, c)

\* (totalCells - numMines) / (numMines + 1)
ExpectedRandom(state) == Rat(state.cells_total - state.num_mines, state.num_mines + 1)

\* C6: for a game in progress evaluate returns
\* 0.5 * (cellsRevealed - expectedRandom) / (totalCells - numMines - expectedRandom),
\* a positive value, when cellsRevealed exceeds expectedRandom, and 0 otherwise.
C6_InProgressReward ==
  (~game.game_over /\ game.num_mines > 0) =>
    LET state == get_game_state(game)
        revealed == Rat(state.cells_revealed, 1)
        safe == Rat(state.cells_total - state.num_mines, 1)
        reward == evaluate(game).reward
    IN IF RatLt(ExpectedRandom(state), revealed)
       THEN /\ RatEq(reward, RatMul(Half, RatDiv(RatSub(revealed, ExpectedRandom(state)),
                                                RatSub(safe, ExpectedRandom(state)))))
            /\ RatLt(Zero, reward)
       ELSE RatEq(reward, Zero)

C8_RewardRange ==
  evaluate(game).status = "evaluated" =>
    LET reward == evaluate(game).reward
    IN /\ RatLeq(Zero, reward) /\ RatLeq(reward, One)
       /\ RatLt(Half, reward) => game.won

\* a game in progress with more cells revealed than expectedRandom, and mines
C8_Witness ==
  /\ ~game.game_over /\ game.num_mines > 0
  /\ RatLt(ExpectedRandom(get_game_state(game)), Rat(RevealedSafe(game), 1))
  /\ evaluate(game).status = "evaluated"

ValidConfiguration(rows, cols, num_mines) ==
  rows >= 1 /\ cols >= 1 /\ 0 < num_mines /\ num_mines < rows * cols

\* C9: a setup call is rejected, the game untouched, for every input that
\* violates rows >= 1, cols >= 1, 0 < numMines < rows*cols, and accepted for
\* every input that satisfies them.
C9_SetupValidation ==
  \A rows \in RowArgs, cols \in ColArgs, num_mines \in MineArgs :
    IF ValidConfiguration(rows, cols, num_mines)
    THEN setup_outcome(rows, cols, num_mines) = "ready"
    ELSE /\ setup_outcome(rows, cols, num_mines) = "rejected"
         /\ setup_game(game, rows, cols, num_mines, {}).game = game

\* C10: a setup call that succeeds, from any state of the session, leaves a
\* game of the requested rows and cols with every cell hidden, game_over and
\* won false and mines_flagged 0, the same game the call yields on a new
\* game object: nothing of the previous board is left.
C10_SetupReplaces ==
  \A rows \in RowArgs, cols \in ColArgs, num_mines \in MineArgs :
    (rows * cols <= MaxSessionCells /\ setup_outcome(rows, cols, num_mines) = "ready") =>
      \A mines \in Layouts(rows, cols, num_mines) :
        LET out == setup_game(game, rows, cols, num_mines, mines)
        IN /\ out.result.status = "ready"
           /\ out.game.rows = rows /\ out.game.cols = cols
           /\ out.game.num_mines = num_mines
           /\ DOMAIN out.game.display_board = Cells(rows, cols)
           /\ DOMAIN out.game.grid = Cells(rows, cols)
           /\ \A c \in Cells(rows, cols) : out.game.display_board[c] = "X"
           /\ ~out.game.game_over /\ ~out.game.won
           /\ out.game.mines_flagged = 0
           /\ out.game = setup_game(NewGame, rows, cols, num_mines, mines).game

\* a fresh game set up after an earlier game of the session was won
C10_Witness ==
  /\ games_played = 2 /\ games_won = 1
  /\ CellsOf(game) # {}
  /\ \A c \in CellsOf(game) : Hidden(game, c)
  /\ ~game.game_over /\ ~game.won /\ game.mines_flagged = 0

\* the mines among the 8 neighbours of a cell
NeighbourMines(g, c) == {m \in MinesOf(g) : Adjacent(c, m)}

\* C11: in every state of a session that has had a successful setup, exactly
\* num_mines cells of the grid are mines, and no reveal or flag call adds,
\* removes or moves a mine.
C11_MineCount ==
  (games_played >= 1 /\ ~hung) =>
    /\ Cardinality(MinesOf(game)) = game.num_mines
    /\ \A row \in RowArgs, col \in ColArgs :
         /\ reveal(game, row, col).game.grid = game.grid
         /\ flag(game, row, col).game.grid = game.grid

\* C12: in a game the stored count of every non-mine cell is the number of
\* mines among its in-bounds neighbours, and no reveal or flag call changes
\* the grid.
C12_NeighbourCounts ==
  /\ \A c \in DOMAIN game.grid :
       ~IsMine(game, c) => game.grid[c] = Cardinality(NeighbourMines(game, c))
  /\ \A row \in RowArgs, col \in ColArgs :
       /\ reveal(game, row, col).game.grid = game.grid
       /\ flag(game, row, col).game.grid = game.grid

\* a game played on: a revealed corner cell shows the count 2 of its two
\* diagonal and orthogonal mine neighbours while another cell is flagged
C12_Witness ==
  /\ \E c \in CellsOf(game) :
       /\ game.display_board[c] = "2"
       /\ \E m \in NeighbourMines(game, c) : m[1] # c[1] /\ m[2] # c[2]
  /\ \E c \in CellsOf(game) : Flagged(game, c)

\* C13: in a game in progress reveal returns invalid exactly when the
\* coordinates are outside the grid or the target cell is flagged or already
\* revealed, and then the game is the same record as before and the result
\* carries no win, so that Context.reveal_cell leaves games_won.
C13_RevealInvalid ==
  ~game.game_over =>
    \A row \in RowArgs, col \in ColArgs :
      LET out == reveal(game, row, col)
          rejected == \/ ~InBounds(game, row, col)
                      \/ Flagged(game, <<row, col>>)
                      \/ Revealed(game, <<row, col>>)
      IN /\ out.result.status = "invalid" <=> rejected
         /\ rejected => out.game = game /\ ~out.result.won

\* a game in progress with a revealed, a flagged and a hidden cell
C13_Witness ==
  /\ ~game.game_over
  /\ \E c \in CellsOf(game) : Revealed(game, c)
  /\ \E c \in CellsOf(game) : Flagged(game, c)
  /\ \E c \in CellsOf(game) : Hidden(game, c)

\* C14: in a game in progress flag returns invalid exactly when the
\* coordinates are outside the grid or the target cell is revealed, and then
\* the display board and mines_flagged are unchanged; every other call
\* changes the display of the target cell only and leaves game_over, won and
\* the grid.
C14_FlagInvalid ==
  ~game.game_over =>
    \A row \in RowArgs, col \in ColArgs :
      LET out == flag(game, row, col)
          rejected == ~InBounds(game, row, col) \/ Revealed(game, <<row, col>>)
      IN /\ out.result.status = "invalid" <=> rejected
         /\ rejected => /\ out.game.display_board = game.display_board
                        /\ out.game.mines_flagged = game.mines_flagged
         /\ ~rejected => /\ out.result.status = "flagged"
                         /\ Changed(game, out.game) = {<<row, col>>}
                         /\ DOMAIN out.game.display_board = DOMAIN game.display_board
         /\ out.game.game_over = game.game_over
         /\ out.game.won = game.won
         /\ out.game.grid = game.grid

\* a game in progress in which a revealed zero-count cell, a flagged safe
\* cell and a flagged mine are there to call flag on
C14_Witness ==
  /\ ~game.game_over
  /\ \E c \in CellsOf(game) : game.display_board[c] = "-"
  /\ \E c \in CellsOf(game) : Flagged(game, c) /\ ~IsMine(game, c)
  /\ \E c \in CellsOf(game) : Flagged(game, c) /\ IsMine(game, c)

\* C15: in a game in progress two consecutive flag calls on the same hidden
\* or flagged cell give back the game they started from: the cell, the
\* other cells, mines_flagged and every other field.
C15_FlagTwice ==
  ~game.game_over =>
    \A c \in CellsOf(game) :
      (Hidden(game, c) \/ Flagged(game, c)) =>
        LET once == flag(game, c[1], c[2])
            twice == flag(once.game, c[1], c[2])
        IN /\ once.result.status = "flagged" /\ twice.result.status = "flagged"
           /\ once.game # game
           /\ twice.game = game
           /\ twice.result.mines_flagged = game.mines_flagged

\* a game in progress with two flags set, a hidden cell and a revealed cell
C15_Witness ==
  /\ ~game.game_over /\ game.mines_flagged = 2
  /\ \E c \in CellsOf(game) : Hidden(game, c)
  /\ \E c \in CellsOf(game) : Revealed(game, c)

\* C16: games_played grows by exactly 1 in every setup call that succeeds
\* and in no other step: every step is a reveal, flag or evaluate call that
\* leaves it, or a setup call that adds 1 if it succeeds and nothing if it
\* does not, and leaves games_won.
C16_GamesPlayed ==
  [][\/ /\ games_played' = games_played
        /\ \/ \E c \in CellsOf(game) : RevealCall(c[1], c[2]) \/ FlagCall(c[1], c[2])
           \/ Evaluate
     \/ /\ \E random_seed \in server_random' :
             SetupCall(game'.rows, game'.cols, game'.num_mines, random_seed,
                       MinesOf(game'))
        /\ games_played' =
             IF setup_outcome(game'.rows, game'.cols, game'.num_mines) = "ready"
             THEN games_played + 1 ELSE games_played
        /\ games_won' = games_won]_vars

\* the second game of a session, set up after the first was won and flagged in
C16_Witness ==
  /\ games_played = 2 /\ games_won = 1
  /\ ~game.game_over
  /\ \E c \in CellsOf(game) : Flagged(game, c)

\* C17: in a game games_won is 1 once the game is won and 0 before: it
\* grows in the reveal call that returns won, which sets won, and every
\* reveal or flag call on a won game returns game_over without a win.
C17_WinCountedOnce ==
  /\ games_won = IF game.won THEN 1 ELSE 0
  /\ \A row \in RowArgs, col \in ColArgs :
       LET out == reveal(game, row, col)
       IN /\ out.result.won <=> out.result.status = "won"
          /\ out.result.won => ~game.won /\ out.game.won /\ out.game.game_over
          /\ ~flag(game, row, col).result.won
          /\ game.won => /\ out.result.status = "game_over"
                         /\ flag(game, row, col).result.status = "game_over"

\* a won game that still has a hidden mine to call reveal on
C17_Witness ==
  /\ game.won /\ games_won = 1
  /\ \E c \in CellsOf(game) : IsMine(game, c) /\ Hidden(game, c)
  /\ \E c \in CellsOf(game) : game.display_board[c] = "-"

\* C18: in every state of a session whose context still answers, evaluate
\* returns its result: it does not raise.
C18_InspectionNeverFails ==
  ~hung => evaluate(game).status = "evaluated"

\* C19: a setup call that succeeds with the rows, cols, num_mines of the
\* current game and the seed of the preceding setup call places the mines
\* where the current game has them.
C19_SeedReproducible ==
  [][\A random_seed \in SeedArgs :
       (/\ server_random = {random_seed}
        /\ setup_outcome(game.rows, game.cols, game.num_mines) = "ready"
        /\ SetupCall(game.rows, game.cols, game.num_mines, random_seed, MinesOf(game')))
         => MinesOf(game') = MinesOf(game)]_vars

\* C20: in a game with mines, the number an accepted flag call shows as
\* "Mines remaining" is num_mines minus the number of flagged cells after
\* the call.
C20_FlagReportsRemaining ==
  (~game.game_over /\ game.num_mines > 0) =>
    \A c \in CellsOf(game) :
      (Hidden(game, c) \/ Flagged(game, c)) =>
        LET out == flag(game, c[1], c[2])
            reply == flag_reply(game, c[1], c[2])
        IN /\ ~reply.error
           /\ reply.mines_remaining =
                out.game.num_mines - Cardinality({x \in CellsOf(out.game) : Flagged(out.game, x)})

----------------------------------------------------------------------------
(* The reference cascade of sim.py, on flat cell indices. *)

NEIGH ==
  << <<-1, -1>>, <<-1, 0>>, <<-1, 1>>, <<0, -1>>, <<0, 1>>, <<1, -1>>, <<1, 0>>, <<1, 1>> >>

rc_to_idx(r, c, cols) == r * cols + c

\* divmod(i, cols)
idx_to_rc(i, cols) == <<i \div cols, i % cols>>

\* the in-bounds neighbours of (r, c) as flat indices, in the order of NEIGH
neighbors(r, c, rows, cols) ==
  LET inb == SelectSeq(NEIGH, LAMBDA n : /\ 0 <= r + n[1] /\ r + n[1] < rows
                                        /\ 0 <= c + n[2] /\ c + n[2] < cols)
  IN [k \in 1 .. Len(inb) |-> rc_to_idx(r + inb[k][1], c + inb[k][2], cols)]

RECURSIVE cascade_neighbours(_, _, _, _)
\* the for loop of lines 89-96 from the k-th neighbour on; st holds q,
\* zero_seen, revealed and newly
cascade_neighbours(st, ns, k, counts) ==
  IF k > Len(ns) THEN st
  ELSE LET j == ns[k]
           st1 == IF counts[j] = 0 /\ j \notin st.zero_seen
                  THEN [st EXCEPT !.q = Append(st.q, j)] ELSE st
           st2 == IF counts[j] >= 0 /\ j \notin st1.revealed
                  THEN [st1 EXCEPT !.revealed = st1.revealed \cup {j},
                                   !.newly = st1.newly \cup {j}]
                  ELSE st1
       IN cascade_neighbours(st2, ns, k + 1, counts)

RECURSIVE cascade_while(_, _, _, _)
\* the while loop of lines 80-96
cascade_while(st, counts, rows, cols) ==
  IF st.q = << >> THEN st
  ELSE LET cur == Head(st.q)
           st0 == [st EXCEPT !.q = Tail(st.q)]
       IN IF cur \in st0.zero_seen THEN cascade_while(st0, counts, rows, cols)
          ELSE LET st1 == [st0 EXCEPT !.zero_seen = st0.zero_seen \cup {cur}]
                   st2 == IF cur \notin st1.revealed
                          THEN [st1 EXCEPT !.revealed = st1.revealed \cup {cur},
                                           !.newly = st1.newly \cup {cur}]
                          ELSE st1
                   rc == idx_to_rc(cur, cols)
               IN cascade_while(cascade_neighbours(st2, neighbors(rc[1], rc[2], rows, cols),
                                                   1, counts),
                                counts, rows, cols)

\* sim.reveal_with_cascade: the set of newly revealed indices
reveal_with_cascade(target, counts, rows, cols, revealed) ==
  IF target \in revealed THEN {}
  ELSE IF counts[target] > 0 THEN {target}
  ELSE cascade_while([q |-> <<target>>, zero_seen |-> {}, revealed |-> revealed, newly |-> {}],
                     counts, rows, cols).newly

\* the game as sim.py holds it: the flat list of counts, the revealed set
CountsOf(g) ==
  [i \in 0 .. g.rows * g.cols - 1 |-> g.grid[idx_to_rc(i, g.cols)]]
RevealedIdx(g) == {rc_to_idx(c[1], c[2], g.cols) : c \in {x \in CellsOf(g) : Revealed(g, x)}}
ChangedIdx(g, h) == {rc_to_idx(c[1], c[2], g.cols) : c \in Changed(g, h)}
NoFlags(g) == \A c \in CellsOf(g) : ~Flagged(g, c)

\* C21 as stated: in a game in progress with mines and without a flagged
\* cell, reveal on a hidden non-mine cell changes exactly the cells that
\* reveal_with_cascade of sim.py returns for that cell.
C21_CascadeMatchesReference ==
  (~game.game_over /\ game.num_mines > 0 /\ NoFlags(game)) =>
    \A c \in CellsOf(game) :
      (Hidden(game, c) /\ ~IsMine(game, c)) =>
        ChangedIdx(game, reveal(game, c[1], c[2]).game) =
          reveal_with_cascade(rc_to_idx(c[1], c[2], game.cols), CountsOf(game),
                              game.rows, game.cols, RevealedIdx(game))

\* every neighbour of a revealed zero-count cell is revealed
ZeroCellsOpened(g) ==
  \A z \in CellsOf(g) :
    g.display_board[z] = "-" => \A n \in CellsOf(g) : Adjacent(z, n) => Revealed(g, n)

\* C21 amended: in a game in progress without a flagged cell in which
\* every neighbour of a revealed zero-count cell is revealed (so in every
\* game in which flag was never called), reveal on a hidden non-mine cell
\* changes exactly the cells reveal_with_cascade returns.
C21_CascadeMatchesOpened ==
  (~game.game_over /\ NoFlags(game) /\ ZeroCellsOpened(game)) =>
    \A c \in CellsOf(game) :
      (Hidden(game, c) /\ ~IsMine(game, c)) =>
        ChangedIdx(game, reveal(game, c[1], c[2]).game) =
          reveal_with_cascade(rc_to_idx(c[1], c[2], game.cols), CountsOf(game),
                              game.rows, game.cols, RevealedIdx(game))

\* a cascade has run over two zero-count cells and their numbered border on
\* a board without flags, and a hidden non-mine cell is left to reveal
C21_Witness ==
  /\ ~game.game_over /\ NoFlags(game) /\ ZeroCellsOpened(game)
  /\ \E a, b \in CellsOf(game) :
       Adjacent(a, b) /\ game.display_board[a] = "-" /\ game.display_board[b] = "-"
  /\ \E c \in CellsOf(game) : Revealed(game, c) /\ game.grid[c] > 0
  /\ \E c \in CellsOf(game) : Hidden(game, c) /\ ~IsMine(game, c)

\* a game as setup_game leaves it when it returns: boards over rows x cols,
\* num_mines mines, every count computed
Complete(g) ==
  /\ DOMAIN g.grid = Cells(g.rows, g.cols)
  /\ DOMAIN g.display_board = Cells(g.rows, g.cols)
  /\ Cardinality(MinesOf(g)) = g.num_mines
  /\ \A c \in DOMAIN g.grid :
       ~IsMine(g, c) => g.grid[c] = Cardinality(NeighbourMines(g, c))

\* C22: a setup call that returns or raises leaves either the previous game
\* and the previous counters, or a complete new game with games_played
\* increased by 1.
C22_SetupAtomic ==
  [][(/\ ~hung'
      /\ \E random_seed \in server_random' :
           SetupCall(game'.rows, game'.cols, game'.num_mines, random_seed, MinesOf(game')))
       => \/ UNCHANGED <<game, games_played, games_won>>
          \/ Complete(game') /\ games_played' = games_played + 1]_vars

\* C23: no setup call enters a mine-placement loop that does not end.
C23_SetupTerminates ==
  hung = FALSE

\* C24: cells_revealed of get_game_state is the number of revealed non-mine
\* cells, and progress is 1 only in a won game.
C24_CellsRevealed ==
  LET state == get_game_state(game)
  IN /\ state.cells_revealed = RevealedSafe(game)
     /\ RatEq(state.progress, One) => game.won

\* C25: on a finished game with mines the reply to every reveal call shows the board,
\* and the dict every reveal and flag call returns carries the board.
C25_GameOverBoard ==
  (game.game_over /\ game.num_mines > 0) =>
    \A row \in RowArgs, col \in ColArgs :
      /\ reveal(game, row, col).result.status = "game_over"
      /\ reveal(game, row, col).result.board
      /\ reveal_reply(game, row, col).board
      /\ flag(game, row, col).result.board

FlaggedCells(g) == {c \in CellsOf(g) : Flagged(g, c)}

\* C26: in every state of a session mines_flagged is the number of cells
\* shown as 'F', it is not negative, and get_board and get_game_state give
\* the same mines_remaining.
C26_FlagCounter ==
  /\ game.mines_flagged = Cardinality(FlaggedCells(game))
  /\ game.mines_flagged >= 0
  /\ get_board(game).mines_remaining = get_game_state(game).mines_remaining

\* the second game of a session, with a flag set next to the cells a
\* cascade has revealed
C26_Witness ==
  /\ games_played = 2
  /\ game.mines_flagged = 1
  /\ \E c \in CellsOf(game) : game.display_board[c] = "-"

\* C27: in a game every cell shows 'X', 'F', '*' on a mine, '-' on a
\* non-mine cell of count 0, or the digit of its count on a non-mine cell of
\* count 1..8.
C27_DisplayMatchesGrid ==
  \A c \in CellsOf(game) :
    \/ Hidden(game, c)
    \/ Flagged(game, c)
    \/ Exploded(game, c) /\ IsMine(game, c)
    \/ /\ game.display_board[c] = "-" /\ game.grid[c] = 0
    \/ /\ game.grid[c] \in 1 .. 8 /\ game.display_board[c] = Str(game.grid[c])

\* a lost game showing an empty cell, a cell of count 2, the exploded mine
\* and a mine that a cascade has passed by
C27_Witness ==
  /\ \E c \in CellsOf(game) : game.display_board[c] = "-"
  /\ \E c \in CellsOf(game) : game.display_board[c] = "2"
  /\ \E c \in CellsOf(game) : Exploded(game, c)
  /\ \E c \in CellsOf(game) : IsMine(game, c) /\ Hidden(game, c)

\* C28: in every state of a session won implies game_over, at most one
\* cell shows an exploded mine, and one does exactly when the game is over
\* and not won.
C28_ExplodedIffLost ==
  LET exploded == {c \in CellsOf(game) : Exploded(game, c)}
  IN /\ game.won => game.game_over
     /\ Cardinality(exploded) <= 1
     /\ exploded # {} <=> (game.game_over /\ ~game.won)

\* the second game of a session lost on a mine after the first was won
C28_Witness ==
  /\ games_played = 2 /\ games_won = 1
  /\ game.game_over /\ ~game.won
  /\ \E c \in CellsOf(game) : Exploded(game, c)

\* C29: in every state of a session games_won is at most games_played and
\* win_rate lies in [0, 1]; 1 win in 3 games gives win_rate 1/3.
C29_WinRate ==
  LET state == Context_get_game_state(game, games_played, games_won)
  IN /\ games_won <= games_played
     /\ RatLeq(Zero, state.win_rate) /\ RatLeq(state.win_rate, One)
     /\ RatEq(Context_get_game_state(game, 3, 1).win_rate, Rat(1, 3))
     /\ games_played = 0 =>
          \A row \in RowArgs, col \in ColArgs :
            ~reveal(game, row, col).result.won /\ ~flag(game, row, col).result.won

\* every game of the session was won
C29_Witness ==
  /\ games_played = MaxGames /\ games_won = games_played
  /\ game.won

HiddenOrFlagged(g) == {c \in CellsOf(g) : Hidden(g, c) \/ Flagged(g, c)}

RECURSIVE PlayOut(_)
\* the game after a caller has unflagged and revealed, cell by cell, every
\* non-mine cell that is hidden or flagged
PlayOut(g) ==
  LET todo == {c \in HiddenOrFlagged(g) : ~IsMine(g, c)}
  IN IF g.game_over \/ todo = {} THEN g
     ELSE LET c == CHOOSE x \in todo : TRUE
          IN IF Flagged(g, c) THEN PlayOut(flag(g, c[1], c[2]).game)
             ELSE PlayOut(reveal(g, c[1], c[2]).game)

\* C30: in a game every accepted reveal call (revealed, won or mine_hit)
\* makes the set of hidden or flagged cells strictly smaller and changes
\* only cells that were hidden, each to its final display; and from every
\* state in progress of a game with a valid configuration the caller that
\* unflags and reveals the remaining non-mine cells ends with the game won.
C30_RevealProgress ==
  /\ \A row \in RowArgs, col \in ColArgs :
       LET out == reveal(game, row, col)
       IN out.result.status \in {"revealed", "won", "mine_hit"} =>
            /\ HiddenOrFlagged(out.game) \subseteq HiddenOrFlagged(game)
            /\ HiddenOrFlagged(out.game) # HiddenOrFlagged(game)
            /\ \A c \in Changed(game, out.game) : Hidden(game, c) /\ ~Hidden(out.game, c)
  /\ (~game.game_over /\ ValidConfiguration(game.rows, game.cols, game.num_mines)) =>
       PlayOut(game).won

\* a game in progress in which every non-mine cell that is not revealed is
\* flagged, next to a flagged mine
C30_Witness ==
  /\ ~game.game_over /\ ValidConfiguration(game.rows, game.cols, game.num_mines)
  /\ \E c \in CellsOf(game) : Revealed(game, c)
  /\ \E c \in CellsOf(game) : Flagged(game, c) /\ IsMine(game, c)
  /\ \E c \in CellsOf(game) : Flagged(game, c) /\ ~IsMine(game, c)
  /\ \A c \in CellsOf(game) : ~IsMine(game, c) => ~Hidden(game, c)

====
